---- MODULE Spec2Model ----
(***************************************************************************)
(* Model of pkg/dockerfile Generator (src/unnamed/part_000).               *)
(*                                                                         *)
(* A Go string is a finite sequence of tokens.  A token is an atomic piece *)
(* of text without a line break; the line break itself is the token NL.   *)
(* Concatenation is \o, strings.Split / strings.Join / strings.TrimSpace   *)
(* are computed on the token sequence, so that line structure (what        *)
(* joinStringsWithoutLineSpace and the weights splice work on) is real.    *)
(***************************************************************************)
EXTENDS Integers, Sequences, FiniteSets, TLC

\* ------------------------------------------------------------------ bounds
MaxRun == 2
MaxPreInstall == 1
MaxPkgs == 2
MaxPaths == 1

\* ------------------------------------------------------------- string layer
NL == "\n"
Whitespace == {" ", NL}

\* strings.Split(s, sep) for a one-token separator: always at least one
\* (possibly empty) piece
SplitOn(s, sep) ==
    LET at == SelectSeq([i \in 1..Len(s) |-> i], LAMBDA i : s[i] = sep)
        n == Len(at)
    IN [k \in 1..(n + 1) |->
          SubSeq(s, (IF k = 1 THEN 0 ELSE at[k - 1]) + 1,
                    (IF k = n + 1 THEN Len(s) + 1 ELSE at[k]) - 1)]

\* strings.Split(s, "\n")
Split(s) == SplitOn(s, NL)

RECURSIVE JoinRange(_, _, _, _)
JoinRange(list, sep, lo, hi) ==
    IF lo > hi THEN <<>>
    ELSE IF lo = hi THEN list[lo]
    ELSE LET mid == (lo + hi) \div 2 IN
         JoinRange(list, sep, lo, mid) \o sep \o JoinRange(list, sep, mid + 1, hi)

\* strings.Join(list, sep)
Join(list, sep) == JoinRange(list, sep, 1, Len(list))

\* strings.TrimSpace
TrimSpace(s) ==
    LET solid == {i \in 1..Len(s) : s[i] \notin Whitespace} IN
    IF solid = {} THEN <<>>
    ELSE SubSeq(s, CHOOSE i \in solid : \A j \in solid : i <= j,
                   CHOOSE i \in solid : \A j \in solid : i >= j)

\* strings.Contains(s, "\n")
ContainsNL(s) == \E i \in 1..Len(s) : s[i] = NL

\* strings.HasPrefix(line, tok) for a literal that is one token
HasPrefix(line, tok) == line # <<>> /\ line[1] = tok

\* append(lines, chunkLines...) over all chunks
Flatten(ss) == JoinRange(ss, <<>>, 1, Len(ss))

filterEmpty(list) == SelectSeq(list, LAMBDA s : s # <<>>)

joinStringsWithoutLineSpace(chunks) ==
    Join(filterEmpty(Flatten([i \in 1..Len(chunks) |-> Split(chunks[i])])), <<NL>>)

\* ------------------------------------------------------------------ errors
NoErr == [kind |-> "none", msg |-> <<>>]
Err(k, m) == [kind |-> k, msg |-> m]

\* ---------------------------------------------------------------- versions
MaxNum == 12

\* strconv.Atoi on one dot-separated part; -1 when it is not a number
Atoi(part) ==
    IF Len(part) = 1 /\ \E n \in 0..MaxNum : ToString(n) = part[1]
    THEN CHOOSE n \in 0..MaxNum : ToString(n) = part[1]
    ELSE -1

ParsedVersion(parts, nums) ==
    IF Len(parts) > 3 \/ \E i \in 1..Len(parts) : nums[i] < 0
    THEN [ok |-> FALSE, Major |-> 0, Minor |-> 0]
    ELSE [ok |-> TRUE, Major |-> nums[1],
          Minor |-> IF Len(parts) >= 2 THEN nums[2] ELSE 0]

ParseParts(parts) == ParsedVersion(parts, [i \in 1..Len(parts) |-> Atoi(parts[i])])

\* version.NewVersion: up to three numeric parts, missing ones are 0
NewVersion(s) == ParseParts(SplitOn(s, "."))

\* lines 600-603
strippedResult(versionString, strippedVersion) ==
    [val |-> strippedVersion, changed |-> strippedVersion # versionString, err |-> NoErr]

\* lines 595-600
stripParsed(versionString, v) ==
    IF ~v.ok THEN [val |-> <<>>, changed |-> FALSE, err |-> Err("malformed-version", versionString)]
    ELSE strippedResult(versionString, <<ToString(v.Major), ".", ToString(v.Minor)>>)

stripPatchVersion(versionString) ==
    IF versionString = <<>> THEN [val |-> <<>>, changed |-> FALSE, err |-> NoErr]
    ELSE stripParsed(versionString, NewVersion(versionString))

\* ------------------------------------------- configuration (collaborators)
\* config.Config accessors used by the generator.  A python package is a
\* record [name, version]; its requirement specifier is name==version.
Specifier(p) == <<p.name, "==">> \o p.version

PackageVersion(cfg, name) ==
    LET idx == {i \in 1..Len(cfg.PythonPackages) : cfg.PythonPackages[i].name = name} IN
    IF idx = {} THEN [version |-> <<>>, ok |-> FALSE]
    ELSE [version |-> cfg.PythonPackages[CHOOSE i \in idx : \A j \in idx : i <= j].version,
          ok |-> TRUE]

TorchVersion(cfg) == PackageVersion(cfg, "torch")

TorchvisionVersion(cfg) == PackageVersion(cfg, "torchvision")

\* newline-joined specifiers of the packages that are not excluded
PythonRequirementsForArch(cfg, excludePackages) ==
    LET specs == [i \in 1..Len(cfg.PythonPackages) |-> Specifier(cfg.PythonPackages[i])]
        kept == SelectSeq(specs, LAMBDA sp : \A j \in 1..Len(excludePackages) : excludePackages[j] # sp)
    IN Join(kept, <<NL>>)

KnownCUDA == { <<"11", ".", "8">> }

\* Config.CUDABaseImageTag: the accelerator image for the configured toolkit
CUDABaseImageTag(cfg) ==
    IF cfg.CUDA \in KnownCUDA
    THEN [val |-> <<"nvidia/cuda:">> \o cfg.CUDA \o <<"-cudnn8-devel-ubuntu22.04">>, err |-> NoErr]
    ELSE [val |-> <<>>, err |-> Err("no-cuda-image", cfg.CUDA)]

\* the supported {accelerator-toolkit, runtime, tensor-library} matrix
SupportedBaseImages ==
    { << <<"11", ".", "8">>, <<"3", ".", "10">>, <<"2", ".", "0">> >>,
      << <<>>,               <<"3", ".", "10">>, <<"2", ".", "0">> >>,
      << <<>>,               <<"3", ".", "10">>, <<>> >> }

NewBaseImageGenerator(cudaVersion, pythonVersion, torchVersion) ==
    IF <<cudaVersion, pythonVersion, torchVersion>> \in SupportedBaseImages
    THEN [cudaVersion |-> cudaVersion, pythonVersion |-> pythonVersion,
          torchVersion |-> torchVersion, err |-> NoErr]
    ELSE [cudaVersion |-> <<>>, pythonVersion |-> <<>>, torchVersion |-> <<>>,
          err |-> Err("no-matching-base-image", Join(<<cudaVersion, pythonVersion, torchVersion>>, <<"/">>))]

BaseImageName(cudaVersion, pythonVersion, torchVersion) ==
    LET components ==
            (IF cudaVersion # <<>> THEN << <<"cuda">> \o cudaVersion >> ELSE <<>>) \o
            (IF pythonVersion # <<>> THEN << <<"python">> \o pythonVersion >> ELSE <<>>) \o
            (IF torchVersion # <<>> THEN << <<"torch">> \o torchVersion >> ELSE <<>>)
        tag == Join(components, <<"-">>)
    IN <<"r8.im/cog-base:">> \o (IF tag = <<>> THEN <<"latest">> ELSE tag)

\* system packages that the engine base image already contains
baseImageSystemPackages == <<"curl", "git">>

ContainsString(list, x) == \E i \in 1..Len(list) : list[i] = x

\* ------------------------------------------------------- base image choice
\* lines 293-298
cogBaseImageFor(imageGenerator) ==
    IF imageGenerator.err # NoErr THEN [val |-> <<>>, err |-> imageGenerator.err]
    ELSE [val |-> BaseImageName(imageGenerator.cudaVersion, imageGenerator.pythonVersion,
                                imageGenerator.torchVersion),
          err |-> NoErr]

\* lines 272-298: py and torch are the results of stripPatchVersion
cogBaseImage(cudaVersion, py, torch) ==
    IF py.err # NoErr THEN [val |-> <<>>, err |-> py.err]
    ELSE IF torch.err # NoErr THEN [val |-> <<>>, err |-> torch.err]
    ELSE cogBaseImageFor(NewBaseImageGenerator(cudaVersion, py.val, torch.val))

BaseImage_cudaFirst(g, cfg) ==
    IF cfg.GPU /\ g.useCudaBaseImage THEN CUDABaseImageTag(cfg)
    ELSE IF g.useCogBaseImage
    THEN cogBaseImage(cfg.CUDA, stripPatchVersion(cfg.PythonVersion),
                      stripPatchVersion(TorchVersion(cfg).version))
    ELSE [val |-> <<"python:">> \o cfg.PythonVersion \o <<"-slim">>, err |-> NoErr]

BaseImage(g, cfg) ==
    IF g.useCogBaseImage
    THEN cogBaseImage(cfg.CUDA, stripPatchVersion(cfg.PythonVersion),
                      stripPatchVersion(TorchVersion(cfg).version))
    ELSE IF cfg.GPU /\ g.useCudaBaseImage THEN CUDABaseImageTag(cfg)
    ELSE [val |-> <<"python:">> \o cfg.PythonVersion \o <<"-slim">>, err |-> NoErr]

\* ------------------------------------------------------ fixed text fragments
preamble ==
    <<"ENV DEBIAN_FRONTEND=noninteractive", NL,
      "ENV PYTHONUNBUFFERED=1", NL,
      "ENV LD_LIBRARY_PATH=$LD_LIBRARY_PATH:/usr/lib/x86_64-linux-gnu:/usr/local/nvidia/lib64:/usr/local/nvidia/bin", NL,
      "ENV NVIDIA_DRIVER_CAPABILITIES=all">>

installTini ==
    Join(<< <<"RUN --mount=type=cache,target=/var/cache/apt,sharing=locked set -eux; \\", NL,
              "apt-get update -qq && \\", NL,
              "apt-get install -qqy --no-install-recommends curl; \\", NL,
              "rm -rf /var/lib/apt/lists/*; \\", NL,
              "TINI_VERSION=v0.19.0; \\", NL,
              "TINI_ARCH=\"$(dpkg --print-architecture)\"; \\", NL,
              "curl -sSL -o /sbin/tini \"https://github.com/krallin/tini/releases/download/${TINI_VERSION}/tini-${TINI_ARCH}\"; \\", NL,
              "chmod +x /sbin/tini">>,
            <<"ENTRYPOINT [\"/sbin/tini\", \"--\"]">> >>, <<NL>>)

installPythonCUDA(cfg) ==
    LET py == cfg.PythonVersion IN
    <<"ENV PATH=\"/root/.pyenv/shims:/root/.pyenv/bin:$PATH\"", NL,
      "RUN --mount=type=cache,target=/var/cache/apt,sharing=locked apt-get update -qq && apt-get install -qqy --no-install-recommends \\", NL,
      "\tmake \\", NL, "\tbuild-essential \\", NL, "\tlibssl-dev \\", NL, "\tzlib1g-dev \\", NL,
      "\tlibbz2-dev \\", NL, "\tlibreadline-dev \\", NL, "\tlibsqlite3-dev \\", NL, "\twget \\", NL,
      "\tcurl \\", NL, "\tllvm \\", NL, "\tlibncurses5-dev \\", NL, "\tlibncursesw5-dev \\", NL,
      "\txz-utils \\", NL, "\ttk-dev \\", NL, "\tlibffi-dev \\", NL, "\tliblzma-dev \\", NL,
      "\tgit \\", NL, "\tca-certificates \\", NL,
      "\t&& rm -rf /var/lib/apt/lists/*", NL,
      "RUN curl -s -S -L https://raw.githubusercontent.com/pyenv/pyenv-installer/master/bin/pyenv-installer | bash && \\", NL,
      "\tgit clone https://github.com/momo-lab/pyenv-install-latest.git \"$(pyenv root)\"/plugins/pyenv-install-latest && \\", NL,
      "\tpyenv install-latest \"">> \o py \o <<"\" && \\", NL,
      "\tpyenv global $(pyenv install-latest --print \"">> \o py \o <<"\") && \\", NL,
      "\tpip install \"wheel<1\"">>

installPython(g, cfg) ==
    IF cfg.GPU /\ g.useCudaBaseImage /\ ~g.useCogBaseImage
    THEN installPythonCUDA(cfg)
    ELSE <<>>

AptPrefix == "RUN --mount=type=cache,target=/var/cache/apt,sharing=locked apt-get update -qq && apt-get install -qqy "
AptSuffix == " && rm -rf /var/lib/apt/lists/*"

aptInstalls(g, cfg) ==
    LET packages == cfg.SystemPackages IN
    IF Len(packages) = 0 THEN <<>>
    ELSE LET filtered ==
                 IF g.useCogBaseImage
                 THEN SelectSeq(packages, LAMBDA pkg : ~ContainsString(baseImageSystemPackages, pkg))
                 ELSE packages
         IN <<AptPrefix>> \o Join([i \in 1..Len(filtered) |-> <<filtered[i]>>], <<" ">>) \o <<AptSuffix>>

copyPipPackagesFromInstallStage(g, cfg) ==
    LET py == cfg.PythonVersion IN
    IF cfg.GPU /\ (g.useCudaBaseImage \/ g.useCogBaseImage)
    THEN <<NL,
           "RUN --mount=type=bind,from=deps,source=/dep,target=/dep \\", NL,
           "    cp -rf /dep/* $(pyenv prefix)/lib/python*/site-packages; \\", NL,
           "    cp -rf /dep/bin/* $(pyenv prefix)/bin; \\", NL,
           "    pyenv rehash", NL>>
    ELSE <<"COPY --from=deps --link /dep /usr/local/lib/python">> \o py \o <<"/site-packages">>

\* ------------------------------------------------------------ run commands
MountTokens(mounts) ==
    LET secrets == SelectSeq(mounts, LAMBDA m : m.Type = "secret") IN
    Join([i \in 1..Len(secrets) |->
            <<"--mount=type=secret,id=", secrets[i].ID, ",target=", secrets[i].Target>>], <<" ">>)

RunLine(run) ==
    LET command == TrimSpace(run.Command) IN
    IF Len(run.Mounts) > 0
    THEN <<"RUN ">> \o MountTokens(run.Mounts) \o <<" ">> \o command
    ELSE <<"RUN ">> \o command

AllRunItems(cfg) ==
    cfg.Run \o [i \in 1..Len(cfg.PreInstall) |-> [Command |-> cfg.PreInstall[i], Mounts |-> <<>>]]

RunLines(items) == Join([i \in 1..Len(items) |-> RunLine(items[i])], <<NL>>)

\* the loop of lines 505-525 over the whole command list
runCommandsOver(items, bad) ==
    IF bad # {}
    THEN [text |-> <<>>,
          err |-> Err("multiline-command",
                      TrimSpace(items[CHOOSE i \in bad : \A j \in bad : i <= j].Command))]
    ELSE [text |-> RunLines(items), err |-> NoErr]

runCommands_noCheck(cfg) == [text |-> RunLines(AllRunItems(cfg)), err |-> NoErr]

runCommands(cfg) ==
    runCommandsOver(AllRunItems(cfg),
                    {i \in 1..Len(AllRunItems(cfg)) : ContainsNL(TrimSpace(AllRunItems(cfg)[i].Command))})

\* ----------------------------------------------------------------- staging
\* A scratch directory on disk: whether it exists and, when it does, the
\* files under it (a function from file name to contents).
NoFiles == [f \in {} |-> <<>>]
AbsentDir == [exists |-> FALSE, files |-> NoFiles]
EmptyDir == [exists |-> TRUE, files |-> NoFiles]

cogWheelEmbed == <<"cog.whl bytes">>
cogFilename == "cog-0.0.1.dev-py3-none-any.whl"
requirementsFilename == "requirements.txt"

\* An I/O fault of one generation: the staged file whose os.MkdirAll or
\* os.WriteFile call fails (disk full, quota); NoFault when none does.
NoFault == [file |-> "", kind |-> "none"]
Faults == {NoFault} \cup [file : {cogFilename, requirementsFilename}, kind : {"mkdir", "write"}]

StagingErr(filename) == Err("staging-write-error", <<"Failed to write ", filename>>)

writeTemp_noWrite(g, d, filename, contents, fault) ==
    [lines |-> << <<"COPY ", g.relativeTmpDir, "/", filename, " /tmp/", filename>> >>,
     path |-> <<"/tmp/", filename>>, err |-> NoErr, d |-> d]

writeTemp_hostPath(g, d, filename, contents, fault) ==
    IF fault.file = filename /\ fault.kind = "mkdir"
    THEN [lines |-> <<>>, path |-> <<>>, err |-> StagingErr(filename), d |-> d]
    ELSE LET made == [exists |-> TRUE, files |-> d.files] IN
         IF fault.file = filename /\ fault.kind = "write"
         THEN [lines |-> <<>>, path |-> <<>>, err |-> StagingErr(filename), d |-> made]
         ELSE [lines |-> << <<"COPY ", g.relativeTmpDir, "/", filename, " /tmp/", filename>> >>,
               path |-> <<g.relativeTmpDir, "/", filename>>,
               err |-> NoErr,
               d |-> [exists |-> TRUE, files |-> (filename :> contents) @@ d.files]]

writeTemp(g, d, filename, contents, fault) ==
    IF fault.file = filename /\ fault.kind = "mkdir"
    THEN [lines |-> <<>>, path |-> <<>>, err |-> StagingErr(filename), d |-> d]
    ELSE LET made == [exists |-> TRUE, files |-> d.files] IN
         IF fault.file = filename /\ fault.kind = "write"
         THEN [lines |-> <<>>, path |-> <<>>, err |-> StagingErr(filename), d |-> made]
         ELSE [lines |-> << <<"COPY ", g.relativeTmpDir, "/", filename, " /tmp/", filename>> >>,
               path |-> <<"/tmp/", filename>>,
               err |-> NoErr,
               d |-> [exists |-> TRUE, files |-> (filename :> contents) @@ d.files]]

\* lines 397-401: w is what writeTemp returned
installCogLines(w) ==
    IF w.err # NoErr THEN [text |-> <<>>, err |-> w.err, d |-> w.d]
    ELSE [text |-> Join(w.lines \o << <<"RUN --mount=type=cache,target=/root/.cache/pip pip install -t /dep ">> \o w.path >>, <<NL>>),
          err |-> NoErr, d |-> w.d]

installCog(g, d, fault) == installCogLines(writeTemp(g, d, cogFilename, cogWheelEmbed, fault))

\* ------------------------------------------------- engine-base pip installs
\* lines 406-412
excludePackages(cfg) ==
    (IF TorchVersion(cfg).ok THEN << <<"torch", "==">> \o TorchVersion(cfg).version >> ELSE <<>>) \o
    (IF TorchvisionVersion(cfg).ok THEN << <<"torchvision", "==">> \o TorchvisionVersion(cfg).version >> ELSE <<>>)

\* lines 424-431: w is what writeTemp returned
pipInstallsLines(w, req) ==
    IF w.err # NoErr THEN [text |-> <<>>, err |-> w.err, d |-> w.d, req |-> req]
    ELSE [text |-> Join(<< w.lines[1], <<"RUN pip install -r ">> \o w.path >>, <<NL>>),
          err |-> NoErr, d |-> w.d, req |-> req]

\* lines 418-431: req is the computed requirements text
pipInstallsFor(g, d, fault, req) ==
    IF req = <<>> THEN [text |-> <<>>, err |-> NoErr, d |-> d, req |-> req]
    ELSE pipInstallsLines(writeTemp(g, d, requirementsFilename, req, fault), req)

pipInstalls(g, cfg, d, fault) ==
    pipInstallsFor(g, d, fault, PythonRequirementsForArch(cfg, excludePackages(cfg)))

\* --------------------------------------------- traditional dependency stage
\* lines 457-465
fromLine(pipStageImage, env) ==
    IF env # <<>>
    THEN <<"FROM ">> \o pipStageImage \o <<" as deps">> \o <<NL, "RUN ">> \o env
    ELSE <<"FROM ">> \o pipStageImage \o <<" as deps">>

\* lines 452-472: w is what writeTemp returned for requirements.txt
pipInstallStageLines(pipStageImage, env, cog, req, w) ==
    IF w.err # NoErr THEN [text |-> <<>>, err |-> w.err, d |-> w.d, req |-> req]
    ELSE [text |-> Join(<< fromLine(pipStageImage, env), cog.text, w.lines[1],
                           <<"RUN --mount=type=cache,target=/root/.cache/pip pip install -t /dep -r ">> \o w.path >>,
                        <<NL>>),
          err |-> NoErr, d |-> w.d, req |-> req]

\* lines 444-472: cog is what installCog returned, req the requirements text
pipInstallStageFor(g, pipStageImage, env, fault, cog, req) ==
    IF req = <<>>
    THEN [text |-> <<"FROM ">> \o pipStageImage \o <<" as deps", NL>> \o cog.text,
          err |-> NoErr, d |-> cog.d, req |-> req]
    ELSE pipInstallStageLines(pipStageImage, env, cog, req,
                              writeTemp(g, cog.d, requirementsFilename, req, fault))

\* lines 435-442
pipInstallStageAfterCog(g, cfg, env, fault, cog) ==
    IF cog.err # NoErr
    THEN [text |-> <<>>, err |-> cog.err, d |-> cog.d, req |-> g.pythonRequirementsContents]
    ELSE pipInstallStageFor(g, <<"python:">> \o cfg.PythonVersion, env, fault, cog,
                            PythonRequirementsForArch(cfg, <<>>))

pipInstallStage(g, cfg, d, env, fault) ==
    pipInstallStageAfterCog(g, cfg, env, fault, installCog(g, d, fault))

\* ----------------------------------------------------------- initial steps
Pragma == <<"#syntax=docker/dockerfile:1.4">>

Failed(e, d, req) == [text |-> <<>>, err |-> e, d |-> d, req |-> req]

engineBaseChunks_withPreamble(baseImage, apt, pip, run) ==
    << Pragma, <<"FROM ">> \o baseImage, preamble, apt, pip, run >>

\* the chunk list of the engine-base strategy
engineBaseChunks(baseImage, apt, pip, run) ==
    << Pragma, <<"FROM ">> \o baseImage, apt, pip, run >>

\* the chunk list of the traditional strategy
traditionalChunks(stage, baseImage, python, apt, copyPip, run) ==
    << Pragma, stage, <<"FROM ">> \o baseImage, preamble, installTini, python, apt, copyPip, run >>

\* lines 132-143: pip is what pipInstalls returned
engineBaseSteps(baseImage, apt, pip, run) ==
    IF pip.err # NoErr THEN Failed(pip.err, pip.d, pip.req)
    ELSE [text |-> joinStringsWithoutLineSpace(engineBaseChunks(baseImage, apt, pip.text, run)),
          err |-> NoErr, d |-> pip.d, req |-> pip.req]

\* lines 146-161: stage is what pipInstallStage returned
traditionalSteps(stage, baseImage, python, apt, copyPip, run) ==
    IF stage.err # NoErr THEN Failed(stage.err, stage.d, stage.req)
    ELSE [text |-> joinStringsWithoutLineSpace(
                      traditionalChunks(stage.text, baseImage, python, apt, copyPip, run)),
          err |-> NoErr, d |-> stage.d, req |-> stage.req]

\* lines 115-161: baseImage and run are what BaseImage and runCommands returned
initialStepsFrom(g, cfg, d, env, fault, baseImage, run) ==
    IF baseImage.err # NoErr THEN Failed(baseImage.err, d, g.pythonRequirementsContents)
    ELSE IF run.err # NoErr THEN Failed(run.err, d, g.pythonRequirementsContents)
    ELSE IF g.useCogBaseImage
    THEN engineBaseSteps(baseImage.val, aptInstalls(g, cfg), pipInstalls(g, cfg, d, fault), run.text)
    ELSE traditionalSteps(pipInstallStage(g, cfg, d, env, fault), baseImage.val,
                          installPython(g, cfg), aptInstalls(g, cfg),
                          copyPipPackagesFromInstallStage(g, cfg), run.text)

generateInitialSteps(g, cfg, d, env, fault) ==
    initialStepsFrom(g, cfg, d, env, fault, BaseImage(g, cfg), runCommands(cfg))

\* ------------------------------------------------------- whole-plan builders
Tail3 == << <<"WORKDIR /src">>, <<"EXPOSE 5000">>, <<"CMD [\"python\", \"-m\", \"cog.server.http\"]">> >>
CopyAll == <<"COPY . /src">>

\* lines 166-174
modelBaseFrom(initialSteps) ==
    IF initialSteps.err # NoErr THEN initialSteps
    ELSE [initialSteps EXCEPT !.text = Join(<<initialSteps.text>> \o Tail3, <<NL>>)]

GenerateModelBase(g, cfg, d, env, fault) ==
    modelBaseFrom(generateInitialSteps(g, cfg, d, env, fault))

\* lines 180-186
withCopyAll(base) ==
    IF base.err # NoErr THEN base
    ELSE [base EXCEPT !.text = joinStringsWithoutLineSpace(<<base.text, CopyAll>>)]

GenerateDockerfileWithoutSeparateWeights(g, cfg, d, env, fault) ==
    withCopyAll(GenerateModelBase(g, cfg, d, env, fault))

\* path.Join("/src", p) for a relative, clean path p
SrcPath(p) == <<"/src", "/", p>>

weightsStageText(paths) ==
    <<"#syntax=docker/dockerfile:1.4", NL, "FROM scratch", NL>> \o
    Flatten([i \in 1..Len(paths) |-> <<NL, "COPY ", paths[i], " ">> \o SrcPath(paths[i])])

\* weights.FindWeights outcome w: [ok, dirs, files]
generateForWeights(w) ==
    IF ~w.ok THEN [text |-> <<>>, dirs |-> <<>>, files |-> <<>>, err |-> Err("weights-discovery-error", <<>>)]
    ELSE [text |-> weightsStageText(w.dirs \o w.files),
          dirs |-> w.dirs, files |-> w.files, err |-> NoErr]

makeDockerignoreForWeights(dirs, files) ==
    <<"DockerignoreHeader">> \o
    Flatten([i \in 1..Len(dirs) |-> <<dirs[i], NL, dirs[i], "/**/*", NL>>]) \o
    Flatten([i \in 1..Len(files) |-> <<files[i], NL>>])

WeightsCopy(p) == <<"COPY --from=weights --link ">> \o SrcPath(p) \o <<" ">> \o SrcPath(p)

InjectBefore(initialStepsLines, imageName, i) ==
    SubSeq(initialStepsLines, 1, i - 1) \o
    << <<"FROM ", imageName, "-weights", " AS ", "weights">> >> \o
    SubSeq(initialStepsLines, i, Len(initialStepsLines))

InjectAtFirst(initialStepsLines, imageName, froms) ==
    IF froms = {} THEN initialStepsLines
    ELSE InjectBefore(initialStepsLines, imageName, CHOOSE k \in froms : \A j \in froms : k <= j)

\* lines 206-216: put the weights stage directive before the first FROM line
InjectWeightsStage(initialStepsLines, imageName) ==
    InjectAtFirst(initialStepsLines, imageName,
                  {i \in 1..Len(initialStepsLines) : HasPrefix(initialStepsLines[i], "FROM ")})

separateWeightsLines_copiesLast(injected, paths) ==
    injected \o Tail3 \o << CopyAll >> \o [i \in 1..Len(paths) |-> WeightsCopy(paths[i])]

\* lines 218-227: what is appended behind the spliced initial steps
separateWeightsLines(injected, paths) ==
    injected \o [i \in 1..Len(paths) |-> WeightsCopy(paths[i])] \o Tail3 \o << CopyAll >>

weightsCopyPaths_filesFirst(dirs, files) == files \o dirs

\* line 218: append(g.modelDirs, g.modelFiles...)
weightsCopyPaths(dirs, files) == dirs \o files

NoWeightsOut == [weightsBase |-> <<>>, dockerignore |-> <<>>, dirs |-> <<>>, files |-> <<>>]

\* lines 200-230: fw and initialSteps are what generateForWeights and
\* generateInitialSteps returned
separateWeightsPlan(imageName, fw, initialSteps) ==
    IF initialSteps.err # NoErr
    THEN initialSteps @@ [NoWeightsOut EXCEPT !.dirs = fw.dirs, !.files = fw.files]
    ELSE [text |-> joinStringsWithoutLineSpace(
                      separateWeightsLines(InjectWeightsStage(Split(initialSteps.text), imageName),
                                           weightsCopyPaths(fw.dirs, fw.files))),
          err |-> NoErr, d |-> initialSteps.d, req |-> initialSteps.req,
          weightsBase |-> fw.text,
          dockerignore |-> makeDockerignoreForWeights(fw.dirs, fw.files),
          dirs |-> fw.dirs, files |-> fw.files]

\* lines 196-203
separateWeightsFrom(g, cfg, d, env, fault, imageName, fw) ==
    IF fw.err # NoErr
    THEN [text |-> <<>>, err |-> Err("weights-stage-error", fw.err.msg), d |-> d,
          req |-> g.pythonRequirementsContents] @@ NoWeightsOut
    ELSE separateWeightsPlan(imageName, fw, generateInitialSteps(g, cfg, d, env, fault))

GenerateModelBaseWithSeparateWeights(g, cfg, d, env, fault, imageName, w) ==
    separateWeightsFrom(g, cfg, d, env, fault, imageName, generateForWeights(w))

\* ------------------------------------------------------------ input domains
RECURSIVE SeqsUpTo(_, _)
\* all sequences over S of length at most n
SeqsUpTo(S, n) ==
    IF n = 0 THEN { <<>> }
    ELSE LET shorter == SeqsUpTo(S, n - 1) IN
         shorter \cup {Append(q, x) : q \in {r \in shorter : Len(r) = n - 1}, x \in S}

\* the first k elements of a pool, for every k up to n
Prefixes(pool, n) == {SubSeq(pool, 1, k) : k \in 0..(IF n < Len(pool) THEN n ELSE Len(pool))}

V310 == <<"3", ".", "10">>
V3105 == <<"3", ".", "10", ".", "5">>
VBad == <<"not-a-version">>
CUDA118 == <<"11", ".", "8">>

Torch201 == [name |-> "torch", version |-> <<"2", ".", "0", ".", "1">>]
Numpy == [name |-> "numpy", version |-> <<"1", ".", "26">>]

PlainRun == [Command |-> <<" ", "echo hi", NL>>, Mounts |-> <<>>]
SecretRun == [Command |-> <<"make build">>,
              Mounts |-> << [Type |-> "secret", ID |-> "pip", Target |-> "/etc/pip.conf"],
                            [Type |-> "cache", ID |-> "c", Target |-> "/root/.cache"] >>]
MultilineRun == [Command |-> <<NL, "echo a", NL, "echo b", " ">>, Mounts |-> <<>>]
RunItems == {PlainRun, SecretRun, MultilineRun}

PreInstallCommands == { <<"pip install wheel", " ">>, <<"echo x", NL, "echo y">> }

SystemPackagePool == {"curl", "git", "ffmpeg"}

MkConfig(gpu, cuda, py, pkgs, sys, run, pre) ==
    [GPU |-> gpu, CUDA |-> cuda, PythonVersion |-> py, PythonPackages |-> pkgs,
     SystemPackages |-> sys, Run |-> run, PreInstall |-> pre]

EnvValues == { <<>>, <<"apt-get install -y cmake">> }
DirPool == <<"weights", "checkpoints">>
FilePool == <<"model.pth", "a.bin">>
WalkFailed == [ok |-> FALSE, dirs |-> <<>>, files |-> <<>>]
WalkOutcomes ==
    {WalkFailed} \cup
    [ok : {TRUE}, dirs : Prefixes(DirPool, MaxPaths), files : Prefixes(FilePool, MaxPaths)]
WalkFull == [ok |-> TRUE, dirs |-> SubSeq(DirPool, 1, 1), files |-> SubSeq(FilePool, 1, 1)]
Worlds == [env : EnvValues, walk : WalkOutcomes]
PlainWorld == [env |-> <<>>, walk |-> WalkFull]
ImageNames == {"r8.im/user/model"}

\* configurations that vary versions, accelerator and dependencies, each in
\* both environments; two of them with every outcome of the weights walk
VersionConfigs ==
    {MkConfig(gpu, cv[1], cv[2], <<Torch201, Numpy>>, <<"ffmpeg">>, <<PlainRun>>, <<>>) :
        gpu \in BOOLEAN,
        cv \in { <<CUDA118, V310>>, <<CUDA118, V3105>>, <<CUDA118, VBad>>, << <<>>, V310 >> }}
    \cup
    {MkConfig(gpu, CUDA118, V310, pkgs, <<>>, <<PlainRun>>, <<>>) :
        gpu \in BOOLEAN, pkgs \in { <<>>, <<Torch201>> }}

WalkConfigs ==
    {MkConfig(gpu, CUDA118, V310, <<Torch201, Numpy>>, <<"ffmpeg">>, <<PlainRun>>, <<>>) : gpu \in BOOLEAN}

Cases ==
    (VersionConfigs \X [env : EnvValues, walk : {WalkFull}])
    \cup (WalkConfigs \X [env : { <<>> }, walk : WalkOutcomes])

\* configurations that vary the system packages
PackageCases ==
    {MkConfig(FALSE, CUDA118, V310, <<Torch201, Numpy>>, sys, <<PlainRun>>, <<>>) :
        sys \in {q \in SeqsUpTo(SystemPackagePool, MaxPkgs) :
                    \A i, j \in 1..Len(q) : i # j => q[i] # q[j]}}
    \X [env : EnvValues, walk : {WalkFull}]

\* configurations that vary the run and pre-install commands; a few of them
\* with a base image that does not resolve or a weights walk that fails
RunCases ==
    ({MkConfig(FALSE, CUDA118, V310, <<Torch201, Numpy>>, <<>>, run, pre) :
        run \in SeqsUpTo(RunItems, MaxRun), pre \in SeqsUpTo(PreInstallCommands, MaxPreInstall)}
     \X {PlainWorld})
    \cup
    ({MkConfig(FALSE, CUDA118, py, <<Torch201, Numpy>>, <<>>, <<run>>, <<>>) :
        py \in {V310, VBad}, run \in {PlainRun, MultilineRun}}
     \X [env : { <<>> }, walk : {WalkFull, WalkFailed}])

ScratchDir1 == ".cog/tmp/build1"
ScratchDir2 == ".cog/tmp/build2"

\* -------------------------------------------------------------------- state
VARIABLES
    cfg,        \* Generator.Config
    world,      \* what the process reads from outside: the environment override and the weights on disk
    g,          \* the Generator's own fields
    fs,         \* the generator's scratch directory (tmpDir) on disk
    last        \* the most recent call on the generator and what it returned

vars == <<cfg, world, g, fs, last>>

GenOps == {"GenerateModelBase", "GenerateDockerfileWithoutSeparateWeights",
           "GenerateModelBaseWithSeparateWeights"}

Call(op) ==
    [op |-> op, err |-> NoErr, text |-> <<>>, useCog |-> FALSE, useCuda |-> FALSE,
     env |-> <<>>, image |-> "", dirs |-> <<>>, files |-> <<>>, weightsBase |-> <<>>,
     dockerignore |-> <<>>, again |-> FALSE, afterErr |-> FALSE]

\* NewGenerator: the scratch directory is created eagerly, the flags default
NewGenerator(rel) ==
    [useCudaBaseImage |-> TRUE, useCogBaseImage |-> FALSE, relativeTmpDir |-> rel,
     pythonRequirementsContents |-> <<>>]

InitWith(cases) ==
    /\ \E c \in cases : cfg = c[1] /\ world = c[2]
    /\ g = NewGenerator(ScratchDir1)
    /\ fs = EmptyDir
    /\ last = Call("NewGenerator")

Init == InitWith(Cases)
InitPackages == InitWith(PackageCases)
InitRun == InitWith(RunCases)

\* ------------------------------------------------------------------ actions
SetUseCudaBaseImage ==
    \E argumentValue \in {"false", "true", "auto"} :
        /\ g' = [g EXCEPT !.useCudaBaseImage = (argumentValue # "false")]
        /\ last' = Call("SetUseCudaBaseImage")
        /\ UNCHANGED <<cfg, world, fs>>

SetUseCogBaseImage ==
    \E useCogBaseImage \in BOOLEAN :
        /\ g' = [g EXCEPT !.useCogBaseImage = useCogBaseImage]
        /\ last' = Call("SetUseCogBaseImage")
        /\ UNCHANGED <<cfg, world, fs>>

BaseImageReturned(r) ==
    /\ last' = [Call("BaseImage") EXCEPT !.err = r.err, !.text = r.val,
                    !.useCog = g.useCogBaseImage, !.useCuda = g.useCudaBaseImage]
    /\ UNCHANGED <<cfg, world, g, fs>>

CallBaseImage == BaseImageReturned(BaseImage(g, cfg))

\* file names under the scratch directory that the COPY lines of a plan name
StagedNamesIn(lines, rel) ==
    {lines[i][4] : i \in {k \in 1..Len(lines) :
                            Len(lines[k]) >= 4 /\ lines[k][1] = "COPY " /\ lines[k][2] = rel}}

StagedNames(text, rel) == StagedNamesIn(Split(text), rel)

\* The state change common to the three generation operations.  The fields
\* modelDirs and modelFiles that line 196 sets are read only by
\* GenerateWeightsManifest; the discovered paths are kept in the call record.
Generated(op, r, image) ==
    /\ g' = [g EXCEPT !.pythonRequirementsContents = r.req]
    /\ fs' = r.d
    /\ last' = [Call(op) EXCEPT !.err = r.err, !.text = r.text,
                    !.useCog = g.useCogBaseImage, !.useCuda = g.useCudaBaseImage,
                    !.env = world.env, !.image = image,
                    !.dirs = r.dirs, !.files = r.files,
                    !.weightsBase = r.weightsBase, !.dockerignore = r.dockerignore]
    /\ UNCHANGED <<cfg, world>>

CallGenerateModelBase ==
    \E fault \in Faults :
        Generated("GenerateModelBase",
                  GenerateModelBase(g, cfg, fs, world.env, fault) @@ NoWeightsOut, "")

CallGenerateDockerfileWithoutSeparateWeights ==
    \E fault \in Faults :
        Generated("GenerateDockerfileWithoutSeparateWeights",
                  GenerateDockerfileWithoutSeparateWeights(g, cfg, fs, world.env, fault)
                      @@ NoWeightsOut, "")

CallGenerateModelBaseWithSeparateWeights ==
    \E fault \in Faults, imageName \in ImageNames :
        Generated("GenerateModelBaseWithSeparateWeights",
                  GenerateModelBaseWithSeparateWeights(g, cfg, fs, world.env, fault,
                                                       imageName, world.walk), imageName)

\* os.RemoveAll: removes the path and everything under it; a missing path is not an error
RemoveAll_failsWhenMissing(d) ==
    IF d.exists THEN [d |-> AbsentDir, err |-> NoErr]
    ELSE [d |-> d, err |-> Err("not-exist", <<>>)]

RemoveAll(d) == [d |-> AbsentDir, err |-> NoErr]

\* lines 261-264: r is what os.RemoveAll did
CleanedUp(r) ==
    /\ fs' = r.d
    /\ last' = [Call("Cleanup") EXCEPT
                    !.err = IF r.err # NoErr THEN Err("cleanup-error", r.err.msg) ELSE NoErr,
                    !.again = (last.op = "Cleanup"),
                    !.afterErr = IF last.op = "Cleanup" THEN last.afterErr ELSE last.err # NoErr]
    /\ UNCHANGED <<cfg, world, g>>

Cleanup == CleanedUp(RemoveAll(fs))

Next ==
    \/ SetUseCudaBaseImage
    \/ SetUseCogBaseImage
    \/ CallBaseImage
    \/ CallGenerateModelBase
    \/ CallGenerateDockerfileWithoutSeparateWeights
    \/ CallGenerateModelBaseWithSeparateWeights
    \/ Cleanup

Spec == Init /\ [][Next]_vars
SpecPackages == InitPackages /\ [][Next]_vars
SpecRun == InitRun /\ [][Next]_vars

\* ------------------------------------------------------- shared vocabulary
Sep == "GenerateModelBaseWithSeparateWeights"
OkGen == last.op \in GenOps /\ last.err = NoErr
OkSep == last.op = Sep /\ last.err = NoErr
PlanLines == Split(last.text)
Positions(L, P(_)) == {i \in 1..Len(L) : P(L[i])}
IsWeightsCopy(line) == HasPrefix(line, "COPY --from=weights --link ")
IsStagedCopy(line) == Len(line) >= 4 /\ line[1] = "COPY " /\ line[2] \in {ScratchDir1, ScratchDir2}
CmdLine == Tail3[3]
WorkdirLine == Tail3[1]

\* one generation operation, as a function of everything it reads
RunOp(op, gen, c, d, env, fault, image, walk) ==
    IF op = "GenerateModelBase" THEN GenerateModelBase(gen, c, d, env, fault)
    ELSE IF op = "GenerateDockerfileWithoutSeparateWeights"
    THEN GenerateDockerfileWithoutSeparateWeights(gen, c, d, env, fault)
    ELSE GenerateModelBaseWithSeparateWeights(gen, c, d, env, fault, image, walk)

\* ------------------------------------------------------------------- C1
\* C1: in every plan that GenerateModelBaseWithSeparateWeights returns without
\* error, the last line is COPY . /src and no other line is COPY . /src.
C1_FinalCopyLastAndOnce ==
    OkSep =>
        LET L == PlanLines IN
        /\ L[Len(L)] = CopyAll
        /\ Cardinality(Positions(L, LAMBDA line : line = CopyAll)) = 1

\* a split plan under the engine-base strategy with a directory and a file found
C1_Witness ==
    /\ OkSep /\ last.useCog
    /\ last.dirs # <<>> /\ last.files # <<>>

DepsStageLine(line) ==
    \/ \E i \in 1..Len(line) : line[i] = " as deps"
    \/ HasPrefix(line, "COPY --from=deps --link /dep /usr/local/lib/python")
    \/ HasPrefix(line, "RUN --mount=type=bind,from=deps,source=/dep,target=/dep \\")

TraditionalOnlyLines ==
    LET fixed == Split(preamble) \o Split(installTini) \o Split(installPythonCUDA(cfg)) IN
    {fixed[i] : i \in 1..Len(fixed)}

\* C3: a plan generated with the engine-base flag set has no dependency
\* stage, no copy or mount from it, no environment preamble, no tini block
\* and no pyenv install, whatever the GPU and accelerator-base flags are; a
\* plan generated without the flag has no in-stage "pip install -r" line.
C3_StrategiesExclusive ==
    OkGen =>
        LET L == PlanLines IN
        IF last.useCog
        THEN \A i \in 1..Len(L) : ~DepsStageLine(L[i]) /\ L[i] \notin TraditionalOnlyLines
        ELSE \A i \in 1..Len(L) : ~HasPrefix(L[i], "RUN pip install -r ")

\* an engine-base plan with GPU and the accelerator-base flag both on, that
\* installs requirements in the stage itself
C3_Witness ==
    /\ OkGen /\ last.useCog /\ last.useCuda /\ cfg.GPU
    /\ \E i \in 1..Len(PlanLines) : HasPrefix(PlanLines[i], "RUN pip install -r ")

\* ------------------------------------------------------------------- C4
IsAptInstall(line) == HasPrefix(line, AptPrefix)

\* C4: a system-package install line is in the plan only when it installs at
\* least one package, and under the engine-base strategy it names no package
\* that the base image already has.
C4_NoEmptyAptInstall ==
    OkGen =>
        LET L == PlanLines IN
        \A i \in Positions(L, IsAptInstall) :
            LET pkgs == SelectSeq(SubSeq(L[i], 2, Len(L[i]) - 1), LAMBDA t : t # " ") IN
            /\ cfg.SystemPackages # <<>>
            /\ pkgs # <<>>
            /\ last.useCog => \A j \in 1..Len(pkgs) : ~ContainsString(baseImageSystemPackages, pkgs[j])

\* ------------------------------------------------------------------- C5
\* C5: under the traditional strategy the line after "FROM ... as deps" is
\* "RUN <override>" exactly when the override is not empty, and the staged
\* installer copy comes after it; with and without requirements.
C5_ExtraSetupIffOverride ==
    (OkGen /\ ~last.useCog) =>
        LET L == PlanLines
            deps == Positions(L, LAMBDA line : Len(line) > 0 /\ line[Len(line)] = " as deps")
            wheel == Positions(L, LAMBDA line : IsStagedCopy(line) /\ line[4] = cogFilename)
        IN /\ Cardinality(deps) = 1
           /\ \A i \in deps :
                 IF last.env # <<>>
                 THEN /\ L[i + 1] = <<"RUN ">> \o last.env
                      /\ \A w \in wheel : w > i + 1
                 ELSE ~HasPrefix(L[i + 1], "RUN ")

\* ------------------------------------------------------------------- C6
Offending == {i \in 1..Len(AllRunItems(cfg)) : ContainsNL(TrimSpace(AllRunItems(cfg)[i].Command))}
FirstOffending == TrimSpace(AllRunItems(cfg)[CHOOSE i \in Offending : \A j \in Offending : i <= j].Command)

\* the lines a command list must produce: the configured run commands in
\* order, then the pre-install commands in order, one RUN line each
ExpectedRunBlock ==
    [i \in 1..Len(cfg.Run) |->
        IF cfg.Run[i].Mounts = <<>> THEN <<"RUN ">> \o TrimSpace(cfg.Run[i].Command)
        ELSE <<"RUN ">> \o MountTokens(cfg.Run[i].Mounts) \o <<" ">> \o TrimSpace(cfg.Run[i].Command)]
    \o [i \in 1..Len(cfg.PreInstall) |-> <<"RUN ">> \o TrimSpace(cfg.PreInstall[i])]

\* number of plan lines behind the run commands
LinesAfterRun ==
    IF last.op = "GenerateModelBase" THEN 3
    ELSE IF last.op = "GenerateDockerfileWithoutSeparateWeights" THEN 4
    ELSE 4 + Len(last.dirs) + Len(last.files)

\* the same call on the same configuration without any command
PlanWithoutCommands ==
    RunOp(last.op, g, [cfg EXCEPT !.Run = <<>>, !.PreInstall = <<>>], fs, last.env, NoFault,
          last.image, world.walk)

RunBlockInPlace ==
    LET L == PlanLines
        r == Len(ExpectedRunBlock)
        tail == LinesAfterRun
    IN /\ Len(L) >= r + tail
       /\ SubSeq(L, Len(L) - tail - r + 1, Len(L) - tail) = ExpectedRunBlock
       /\ Len(L) = Len(Split(PlanWithoutCommands.text)) + r

\* C6 as stated: with a multi-line command every generation operation returns
\* the multiline-command error.
C6_AlwaysMultilineError ==
    (last.op \in GenOps /\ Offending # {}) =>
        /\ last.err = Err("multiline-command", FirstOffending)
        /\ last.text = <<>>

\* C6 amended: with a multi-line command every generation operation fails and
\* returns no plan text; the error is the multiline-command error carrying the
\* trimmed text of the first offending command whenever the steps before
\* runCommands (weights discovery, base image resolution) succeed.  Without a
\* multi-line command a returned plan has exactly one RUN line per command, in
\* order, configured run commands before pre-install commands.
C6_RunCommands ==
    last.op \in GenOps =>
        IF Offending # {}
        THEN /\ last.err # NoErr
             /\ last.text = <<>>
             /\ (BaseImage(g, cfg).err = NoErr /\ (last.op = Sep => world.walk.ok))
                    => last.err = Err("multiline-command", FirstOffending)
             /\ runCommands(cfg).err = Err("multiline-command", FirstOffending)
             /\ runCommands(cfg).text = <<>>
        ELSE last.err = NoErr => RunBlockInPlace

\* a generation that failed on a multi-line command
C6_Witness ==
    /\ last.op \in GenOps /\ Offending # {}
    /\ last.err.kind = "multiline-command"

\* ------------------------------------------------------------------- C7
StagedContents(f) == IF f = cogFilename THEN cogWheelEmbed ELSE g.pythonRequirementsContents

StagedFilesPresent ==
    OkGen => \A f \in StagedNames(last.text, g.relativeTmpDir) :
                /\ fs.exists
                /\ f \in DOMAIN fs.files
                /\ fs.files[f] = StagedContents(f)

StagingFailureReturnsNothing ==
    /\ last.err.kind = "staging-write-error" => last.text = <<>>
    /\ \A fault \in Faults \ {NoFault} :
          LET w == writeTemp(g, fs, fault.file, cogWheelEmbed, fault) IN
          w.err = StagingErr(fault.file) /\ w.lines = <<>> /\ w.path = <<>>
    /\ \A fault \in Faults \ {NoFault}, op \in GenOps :
          LET r == RunOp(op, g, cfg, fs, world.env, fault, "img", world.walk)
              clean == RunOp(op, g, cfg, fs, world.env, NoFault, "img", world.walk)
          IN (clean.err = NoErr /\ r.err # NoErr) => (r.err = StagingErr(fault.file) /\ r.text = <<>>)

\* C7: after every step, the scratch-directory COPY lines of a plan that was
\* just returned name files that are on disk with the staged contents; a
\* failed staging returns an error, no instruction and no path, and makes the
\* generation fail without plan text; and no call other than Cleanup removes
\* a staged file.
C7_StagedBeforeHandedOut ==
    /\ [](StagedFilesPresent /\ StagingFailureReturnsNothing)
    /\ [][last'.op # "Cleanup" => \A f \in DOMAIN fs.files : fs'.exists /\ f \in DOMAIN fs'.files]_vars

\* a traditional plan that copies both the installer and requirements.txt
C7_Witness ==
    /\ OkGen
    /\ StagedNames(last.text, g.relativeTmpDir) = {cogFilename, requirementsFilename}
    /\ DOMAIN fs.files = {cogFilename, requirementsFilename}

MajorMinor(v) == IF Len(v) >= 3 THEN SubSeq(v, 1, 3) ELSE v
WellFormed(v) == v = <<>> \/ NewVersion(v).ok

\* C9: BaseImage returns, by precedence: with the engine-base flag, the name
\* of the patch-stripped triple or an error when a version is malformed or
\* the triple unsupported; else with GPU and the accelerator-base flag, what
\* the configuration's accelerator tag lookup returns; else
\* python:<version>-slim with the version as configured.
C9_BaseImagePrecedence ==
    last.op = "BaseImage" =>
        IF last.useCog
        THEN LET py == cfg.PythonVersion
                 torch == TorchVersion(cfg).version
                 triple == <<cfg.CUDA, MajorMinor(py), MajorMinor(torch)>>
             IN IF ~WellFormed(py) \/ ~WellFormed(torch)
                THEN last.err.kind = "malformed-version" /\ last.text = <<>>
                ELSE IF triple \notin SupportedBaseImages
                THEN last.err.kind = "no-matching-base-image" /\ last.text = <<>>
                ELSE last.err = NoErr /\ last.text = BaseImageName(triple[1], triple[2], triple[3])
        ELSE IF cfg.GPU /\ last.useCuda
        THEN last.err = CUDABaseImageTag(cfg).err /\ last.text = CUDABaseImageTag(cfg).val
        ELSE last.err = NoErr /\ last.text = <<"python:">> \o cfg.PythonVersion \o <<"-slim">>

\* engine-base chosen although GPU and accelerator-base are on, with a patch
\* version that had to be stripped
C9_Witness ==
    /\ last.op = "BaseImage" /\ last.useCog /\ last.useCuda /\ cfg.GPU
    /\ cfg.PythonVersion = V3105 /\ last.err = NoErr

\* ------------------------------------------------------------------ C10
\* a plan with the scratch directory blanked in its staged-artifact COPY lines
Masked(text) ==
    LET L == Split(text) IN
    [i \in 1..Len(L) |-> IF IsStagedCopy(L[i]) THEN [L[i] EXCEPT ![2] = "<scratch>"] ELSE L[i]]

\* the same call on a second instance that differs in its scratch directory,
\* made in world w
SecondRun(w) ==
    RunOp(last.op, [NewGenerator(ScratchDir2) EXCEPT !.useCogBaseImage = g.useCogBaseImage,
                                                      !.useCudaBaseImage = g.useCudaBaseImage],
          cfg, EmptyDir, w.env, NoFault, last.image, w.walk)

\* C10 as stated: nothing but the configuration, the flags and the scratch
\* directory decides the plan.
C10_OnlyConfigurationMatters ==
    OkGen => \A w \in Worlds :
                SecondRun(w).err = NoErr => Masked(SecondRun(w).text) = Masked(last.text)

\* C10 amended: two instances with the same configuration, flags and call
\* arguments, run with the same environment override and the same discovered
\* weights, return plans that are equal line for line except for the
\* scratch-directory path in the staged-artifact COPY lines.
C10_DeterministicUpToScratchDir ==
    OkGen =>
        LET other == SecondRun(world) IN
        /\ other.err = NoErr
        /\ Masked(other.text) = Masked(last.text)
        /\ \A i \in 1..Len(PlanLines) :
              IsStagedCopy(PlanLines[i]) => Split(other.text)[i] # PlanLines[i]

\* a plan with staged-artifact COPY lines, made with the override set
C10_Witness ==
    /\ OkGen /\ last.env # <<>> /\ ~last.useCog
    /\ Cardinality(Positions(PlanLines, IsStagedCopy)) = 2

====
